---------------------------- MODULE Spec2Model ----------------------------
(***************************************************************************)
(* Model of app.py of Efficient-Portfolio-Optimizer: data preparation,     *)
(* portfolio metrics, the constrained optimizer wrapper, the efficient     *)
(* frontier generator and the /analyze request handler.                    *)
(*                                                                         *)
(* Numbers.  Daily returns are exact fixed-point integers in units of      *)
(* 1/ReturnScale.  A weight vector is [num, den]: entry i is num[i]/den    *)
(* (den = 0 stands for the NaN entries of 0/0).  A real result is a record *)
(* [k, s, n, d, rn, rd]: k = "num" is the finite value                     *)
(* s * (n/d) * sqrt(rn/rd), and k = "nan", "inf", "ninf" are the IEEE      *)
(* values numpy's float64 arithmetic produces instead of raising.          *)
(***************************************************************************)
EXTENDS Integers, Sequences, FiniteSets, TLC

VARIABLES
    pc,               \* position of the /analyze handler
    selected_stocks,  \* request field 'stocks'
    optimization,     \* request field 'optimization'
    weights_input,    \* request field 'weights'
    returns_df,       \* the handler's returns_df (before and after the column filter)
    opt_result,       \* what minimize() returned to the handler's optimize_portfolio call
    weights,          \* the handler's weights
    metrics,          \* the handler's metrics
    frontier_data,    \* the handler's frontier_data
    response,         \* the JSON response of the handler
    invoked,          \* names of the core functions the handler has called so far
    rng,              \* state of numpy's global random generator
    fr,               \* locals of the running generate_efficient_frontier call
    prep,             \* locals of a prepare_portfolio_data call run on its own
    mt,               \* arguments and result of a calculate_portfolio_metrics call run on its own
    runs,             \* results of successive generate_efficient_frontier calls
    th,               \* locals of generate_efficient_frontier calls running in parallel threads
    fetch             \* locals of a fetch_stock_data call run on its own

vars == <<pc, selected_stocks, optimization, weights_input, returns_df, opt_result,
          weights, metrics, frontier_data, response, invoked, rng, fr, prep, mt, runs,
          th, fetch>>

---------------------------------------------------------------------------
(* Bounds of the model *)

MaxDate == 3

MaxSwing == 1

MaxRawWeight == 2

WeightDen == 1

MaxSelected == 2

SamplePortfolios == 2

CurvePoints == 2

RngModulus == 16

MaxCalls == 2

MaxRawNum == 2

MaxFromDate == 1

MaxChunks == 2

DateSlack == 2
\* Largest n_portfolios for which the spacing of np.linspace is compared.
MaxPoints == 4
\* Largest value of one draw, in units of the smallest positive draw.
MaxDraw == 1

(* Program constants *)

TRADING_DAYS == 252

RISK_FREE_PCT == 6

PERCENT == 100

SEED == 42

CHUNK_DAYS == 1999

\* The first three of the five configured instruments, in dictionary order.
STOCKS == <<"RELIANCE", "TCS", "HDFCBANK">>

StockSet == {STOCKS[i] : i \in 1..Len(STOCKS)}

Dates == 1..MaxDate

---------------------------------------------------------------------------
(* Integer and sequence helpers *)

Abs(x) == IF x < 0 THEN -x ELSE x

Sgn(x) == IF x < 0 THEN -1 ELSE IF x > 0 THEN 1 ELSE 0

RECURSIVE Gcd(_, _)
Gcd(a, b) == IF b = 0 THEN a ELSE Gcd(b, a % b)

RECURSIVE LcmUpTo(_)
LcmUpTo(m) == IF m <= 1 THEN 1
              ELSE LET l == LcmUpTo(m - 1) IN (l * m) \div Gcd(l, m)

RECURSIVE SumSeq(_)
SumSeq(s) == IF s = <<>> THEN 0 ELSE Head(s) + SumSeq(Tail(s))

RECURSIVE SetToSortedSeq(_)
SetToSortedSeq(S) ==
    IF S = {} THEN <<>>
    ELSE LET m == CHOOSE x \in S : \A y \in S : x <= y
         IN <<m>> \o SetToSortedSeq(S \ {m})

Range(s) == {s[i] : i \in 1..Len(s)}

IsInjective(s) == \A i, j \in 1..Len(s) : s[i] = s[j] => i = j

\* Python's None, as a value that can be compared with every record below.
None == [k |-> "None"]

IsNone(x) == x.k = "None"

---------------------------------------------------------------------------
(* Real results *)

NaN == [k |-> "nan", s |-> 0, n |-> 0, d |-> 1, rn |-> 1, rd |-> 1]

PosInf == [k |-> "inf", s |-> 1, n |-> 0, d |-> 1, rn |-> 1, rd |-> 1]

NegInf == [k |-> "ninf", s |-> -1, n |-> 0, d |-> 1, rn |-> 1, rd |-> 1]

\* The record of the rational n/d, d # 0, in lowest terms.
Rat(n, d) ==
    LET g == Gcd(Abs(n), Abs(d))
    IN [k |-> "num", s |-> Sgn(n) * Sgn(d), n |-> Abs(n) \div g, d |-> Abs(d) \div g,
        rn |-> 1, rd |-> 1]

\* The record of (cn/cd) * sqrt(rn/rd), cd > 0, rn >= 0, rd > 0.
ScaledRoot(cn, cd, rn, rd) ==
    IF cn = 0 \/ rn = 0 THEN Rat(0, 1)
    ELSE LET g == Gcd(Abs(cn), cd)
             h == Gcd(rn, rd)
         IN [k |-> "num", s |-> Sgn(cn), n |-> Abs(cn) \div g, d |-> cd \div g,
             rn |-> rn \div h, rd |-> rd \div h]

IsFinite(x) == x.k = "num"

IsZero(x) == x.k = "num" /\ x.s = 0

\* x < y on rationals; every comparison with NaN is false, as in IEEE.
RLess(x, y) ==
    /\ x.k = "num"
    /\ y.k = "num"
    /\ LET g == Gcd(x.d, y.d)
       IN x.s * x.n * (y.d \div g) < y.s * y.n * (x.d \div g)

---------------------------------------------------------------------------
(* Market data and prepare_portfolio_data *)

ReturnScale == LcmUpTo(1 + MaxSwing)

\* Closing price of a series that swings between 1 and 1 + swing.
ClosePrice(swing, d) == IF d % 2 = 0 THEN 1 + swing ELSE 1

\* What the data provider holds for one instrument: closing prices on a set of dates.
KiteSeries(D, swing) == [d \in D |-> ClosePrice(swing, d)]

\* Series with arbitrary missing dates.
GappedSeries == {KiteSeries(D, sw) : D \in SUBSET Dates, sw \in 0..MaxSwing}

\* Series that differ only in the date the instrument was first traded.
ListedSeries == {KiteSeries(st..MaxDate, sw) : st \in 1..(MaxDate + 1), sw \in 0..MaxSwing}

\* fetch_stock_data as seen by its caller: None when the provider has no rows
\* (lines 63-65, 69-71), otherwise the date-indexed frame.
FetchStockData(rows) ==
    IF DOMAIN rows = {} THEN None ELSE [k |-> "df", close |-> rows]

\* df['close'].pct_change().dropna(): the first date has no return.
PctChange(close) ==
    LET idx == SetToSortedSeq(DOMAIN close)
        ret(j) == ((close[idx[j]] - close[idx[j - 1]]) * ReturnScale) \div close[idx[j - 1]]
    IN [d \in {idx[j] : j \in 2..Len(idx)} |->
            LET j == CHOOSE j \in 2..Len(idx) : idx[j] = d IN ret(j)]

\* One iteration of the loop over STOCKS (lines 87-92); data is a sequence of
\* [symbol, returns] entries in insertion order.
PrepareStep(returns_data, symbol, df) ==
    IF ~IsNone(df) /\ DOMAIN df.close # {}
    THEN Append(returns_data, [symbol |-> symbol, returns |-> PctChange(df.close)])
    ELSE returns_data

\* Dates on which every column has a value.
CommonDatesAll(returns_data) ==
    {d \in Dates : \A j \in 1..Len(returns_data) : d \in DOMAIN returns_data[j].returns}

CombineReturns(returns_data) ==
    LET rows == IF returns_data = <<>> THEN {} ELSE CommonDatesAll(returns_data)
    IN [k |-> "df",
        columns |-> [j \in 1..Len(returns_data) |-> returns_data[j].symbol],
        index |-> SetToSortedSeq(rows),
        val |-> [d \in rows |->
                    [c \in {returns_data[j].symbol : j \in 1..Len(returns_data)} |->
                        LET j == CHOOSE j \in 1..Len(returns_data) : returns_data[j].symbol = c
                        IN returns_data[j].returns[d]]]]

RECURSIVE PrepareLoop(_, _, _)
PrepareLoop(kite, i, returns_data) ==
    IF i > Len(STOCKS) THEN returns_data
    ELSE PrepareLoop(kite, i + 1,
                     PrepareStep(returns_data, STOCKS[i], FetchStockData(kite[STOCKS[i]])))

\* prepare_portfolio_data: the returns frame of every instrument that has data.
PreparePortfolioData(kite) == CombineReturns(PrepareLoop(kite, 1, <<>>))

\* DataFrame.empty: no rows or no columns.
IsEmpty(df) == Len(df.index) = 0 \/ Len(df.columns) = 0

\* returns_df[selected_stocks]: raises KeyError when a label is not a column.
HasColumns(df, selected) == Range(selected) \subseteq Range(df.columns)

SelectColumns(df, selected) ==
    [k |-> "df",
     columns |-> selected,
     index |-> df.index,
     val |-> [d \in Range(df.index) |-> [c \in Range(selected) |-> df.val[d][c]]]]

---------------------------------------------------------------------------
(* calculate_portfolio_metrics *)

RECURSIVE GcdSeq(_)
GcdSeq(s) == IF s = <<>> THEN 0 ELSE Gcd(Abs(Head(s)), GcdSeq(Tail(s)))

\* The vector num / den in lowest terms with a positive denominator; 0/0 is NaN.
WeightVector(num, den) ==
    IF den = 0 THEN [k |-> "w", num |-> [i \in 1..Len(num) |-> 0], den |-> 0]
    ELSE LET g == Gcd(GcdSeq(num), Abs(den))
         IN [k |-> "w", num |-> [i \in 1..Len(num) |-> (num[i] * Sgn(den)) \div g],
             den |-> Abs(den) \div g]

\* Entry i of a weight vector as a real.
WeightAt(w, i) == IF w.den = 0 THEN NaN ELSE Rat(w.num[i], w.den)

\* Sum over the rows of the frame of column c.
ColumnSum(df, c) == SumSeq([t \in 1..Len(df.index) |-> df.val[df.index[t]][c]])

\* Weighted return of row t, times den.
RowReturn(w, df, t) ==
    SumSeq([i \in 1..Len(df.columns) |-> w.num[i] * df.val[df.index[t]][df.columns[i]]])

\* np.sum(returns_df.mean() * weights), times T * den * ReturnScale.
ReturnNum(w, df) ==
    SumSeq([i \in 1..Len(df.columns) |-> w.num[i] * ColumnSum(df, df.columns[i])])

\* weights' . cov . weights, times T * (T - 1) * den^2 * ReturnScale^2
\* (cov is the sample covariance, ddof = 1).
VarianceNum(w, df) ==
    LET T == Len(df.index)
        P == [t \in 1..T |-> RowReturn(w, df, t)]
    IN T * SumSeq([t \in 1..T |-> P[t] * P[t]]) - SumSeq(P) * SumSeq(P)

\* portfolio_return * 100 (line 107).
AnnualReturnPct(w, df) ==
    LET T == Len(df.index)
    IN IF w.den = 0 \/ T = 0 THEN NaN
       ELSE Rat(PERCENT * TRADING_DAYS * ReturnNum(w, df), T * w.den * ReturnScale)

\* portfolio_std * 100 (lines 103, 108); the covariance of a single row is NaN.
AnnualRiskPct(w, df) ==
    LET T == Len(df.index)
    IN IF w.den = 0 \/ T <= 1 THEN NaN
       ELSE ScaledRoot(PERCENT, w.den * ReturnScale,
                       TRADING_DAYS * VarianceNum(w, df), T * (T - 1))

\* (portfolio_return - 0.06) / portfolio_std (line 104): float64 division, so a
\* zero portfolio_std gives inf, -inf or NaN and no exception.
SharpeRatio(w, df) ==
    LET T == Len(df.index)
        \* (portfolio_return - 0.06) * PERCENT * T * den * ReturnScale
        excess == PERCENT * TRADING_DAYS * ReturnNum(w, df)
                      - RISK_FREE_PCT * T * w.den * ReturnScale
        v == VarianceNum(w, df)
    IN IF w.den = 0 \/ T <= 1 THEN NaN
       ELSE IF v = 0
            THEN (IF excess > 0 THEN PosInf ELSE IF excess < 0 THEN NegInf ELSE NaN)
            ELSE ScaledRoot(excess, PERCENT * T, T * (T - 1), TRADING_DAYS * v)

\* A raised exception, with the text str(e) gives.
Raise(e) == [k |-> "raise", error |-> e]

IsRaise(x) == x.k = "raise"

\* weights = None makes returns_df.mean() * weights / weights.T raise.
CalculatePortfolioMetrics(w, df) ==
    IF IsNone(w) THEN Raise("TypeError")
    ELSE [k |-> "metrics",
          return |-> AnnualReturnPct(w, df),
          risk |-> AnnualRiskPct(w, df),
          sharpe |-> SharpeRatio(w, df)]

---------------------------------------------------------------------------
(* scipy.optimize.minimize and optimize_portfolio *)

\* np.array([1/n_assets] * n_assets)
EqualWeights(n) == WeightVector([i \in 1..n |-> 1], n)

\* The points of the simplex {x : 0 <= x_i <= 1, sum(x) = 1} on the grid 1/WeightDen.
SimplexGrid(n) ==
    {WeightVector(x, WeightDen) : x \in {y \in [1..n -> 0..WeightDen] : SumSeq(y) = WeightDen}}

\* What SLSQP can hand back: a success flag and the last iterate x, which is a
\* feasible point, or the initial guess.
SolverResults(n) ==
    [success : BOOLEAN, x : SimplexGrid(n) \cup {EqualWeights(n)}]

\* optimize_portfolio falling back on the last iterate when the solver failed.
OptimizePortfolioFallback(df, optimization_type, result) ==
    IF optimization_type \in {"sharpe", "min_risk"} THEN result.x ELSE None

\* optimize_portfolio, given the result minimize() returns for its objective.
OptimizePortfolio(df, optimization_type, result) ==
    IF optimization_type \in {"sharpe", "min_risk"}
    THEN (IF result.success THEN result.x ELSE None)
    ELSE None

---------------------------------------------------------------------------
(* numpy's global random generator *)

\* A seed call that leaves the generator as it was.
SeedGeneratorStale(state, value) == state

\* np.random.seed(value): the new state depends on the seed alone.
SeedGenerator(state, value) == value % RngModulus

\* The state after one draw.
Advance(state) == (5 * state + 3) % RngModulus

RECURSIVE AdvanceBy(_, _)
AdvanceBy(state, n) == IF n = 0 THEN state ELSE AdvanceBy(Advance(state), n - 1)

\* np.random.random(n): n successive draws, each state / RngModulus in [0, 1).
RandomVector(state, n) == [i \in 1..n |-> AdvanceBy(state, i - 1)]

---------------------------------------------------------------------------
(* generate_efficient_frontier *)

\* a + (b - a) * i / m on rationals.
Interpolate(a, b, i, m) ==
    Rat(a.s * a.n * b.d * (m - i) + b.s * b.n * a.d * i, a.d * b.d * m)

\* n values spaced by (b - a) / n, stopping one step short of b.
LinspaceOpen(a, b, n) ==
    [i \in 1..n |->
        IF ~IsFinite(a) \/ ~IsFinite(b) THEN NaN
        ELSE Interpolate(a, b, i - 1, n)]

\* np.linspace(a, b, n): n evenly spaced values, the last one b itself.
Linspace(a, b, n) ==
    [i \in 1..n |->
        IF ~IsFinite(a) \/ ~IsFinite(b) THEN NaN
        ELSE IF n = 1 THEN a
        ELSE Interpolate(a, b, i - 1, n - 1)]

\* Python's min() and max(): keep the first element unless a later one compares
\* smaller (larger); comparisons with NaN are false.
RECURSIVE PyMinFrom(_, _)
PyMinFrom(m, s) ==
    IF s = <<>> THEN m
    ELSE PyMinFrom(IF RLess(Head(s), m) THEN Head(s) ELSE m, Tail(s))

PyMin(s) == PyMinFrom(Head(s), Tail(s))

RECURSIVE PyMaxFrom(_, _)
PyMaxFrom(m, s) ==
    IF s = <<>> THEN m
    ELSE PyMaxFrom(IF RLess(m, Head(s)) THEN Head(s) ELSE m, Tail(s))

PyMax(s) == PyMaxFrom(Head(s), Tail(s))

\* The locals of a call that has not started; anchor_solved and solved record
\* result.success of the two anchor solves and of the solve for each target.
FrontierIdle ==
    [pc |-> "idle", returns_df |-> None, n_assets |-> 0,
     random_returns |-> <<>>, random_risks |-> <<>>, random_sharpes |-> <<>>,
     max_sharpe_weights |-> None, min_risk_weights |-> None,
     max_sharpe_metrics |-> None, min_risk_metrics |-> None,
     target_returns |-> <<>>, frontier_risks |-> <<>>,
     anchor_solved |-> <<>>, solved |-> <<>>,
     result |-> None]

\* Lines 146-148: entry of the call with its argument.
FrontierEntry(df) ==
    [FrontierIdle EXCEPT !.pc = "seed", !.returns_df = df, !.n_assets = Len(df.columns)]

\* Lines 158-159: weights = np.random.random(n_assets); weights /= np.sum(weights).
RandomWeights(state, n) ==
    LET draws == RandomVector(state, n) IN WeightVector(draws, SumSeq(draws))

\* Lines 160-165: the metrics of the vector `weights` appended to the three lists.
SampleWith(f, w) ==
    LET m == CalculatePortfolioMetrics(w, f.returns_df)
    IN [f EXCEPT !.random_returns = Append(@, m.return),
                 !.random_risks = Append(@, m.risk),
                 !.random_sharpes = Append(@, m.sharpe),
                 !.pc = IF Len(f.random_returns) + 1 = SamplePortfolios
                        THEN "anchors" ELSE "cloud"]

\* Lines 157-165: one iteration of the random-portfolio loop; the local
\* `weights` is bound once and then handed to calculate_portfolio_metrics.
SampleStep(f, state) ==
    CHOOSE g \in {SampleWith(f, w) : w \in {RandomWeights(state, f.n_assets)}} : TRUE

\* Lines 171-177 for the anchor weights ms and mr: their metrics and the targets.
\* Metrics of a None weight vector raise, which ends the call.
AnchorMetrics(f, ms, mr) ==
    LET msm == CalculatePortfolioMetrics(ms, f.returns_df)
        mrm == CalculatePortfolioMetrics(mr, f.returns_df)
    IN IF IsRaise(msm) THEN [f EXCEPT !.pc = "raised", !.result = msm,
                                      !.max_sharpe_weights = ms, !.min_risk_weights = mr]
       ELSE IF IsRaise(mrm) THEN [f EXCEPT !.pc = "raised", !.result = mrm,
                                           !.max_sharpe_weights = ms,
                                           !.min_risk_weights = mr,
                                           !.max_sharpe_metrics = msm]
       ELSE [f EXCEPT !.pc = IF CurvePoints = 0 THEN "return" ELSE "curve",
                      !.max_sharpe_weights = ms, !.min_risk_weights = mr,
                      !.max_sharpe_metrics = msm, !.min_risk_metrics = mrm,
                      !.target_returns =
                          Linspace(PyMin(f.random_returns), PyMax(f.random_returns),
                                   CurvePoints)]

\* The anchors taken from the last iterate whether or not the solve succeeded.
AnchorStepLenient(f, r1, r2) ==
    AnchorMetrics([f EXCEPT !.anchor_solved = <<r1.success, r2.success>>], r1.x, r2.x)

\* Lines 167-177: the two anchor portfolios, given what minimize() returns for each.
AnchorStep(f, r1, r2) ==
    AnchorMetrics([f EXCEPT !.anchor_solved = <<r1.success, r2.success>>],
                  OptimizePortfolio(f.returns_df, "sharpe", r1),
                  OptimizePortfolio(f.returns_df, "min_risk", r2))

\* A failed solve leaving no entry behind.
AppendCurvePointOmit(frontier_risks, result, df) ==
    IF result.success
    THEN Append(frontier_risks, CalculatePortfolioMetrics(result.x, df).risk)
    ELSE frontier_risks

\* Lines 193-198: what the solve for one target appends to frontier_risks.
AppendCurvePoint(frontier_risks, result, df) ==
    IF result.success
    THEN Append(frontier_risks, CalculatePortfolioMetrics(result.x, df).risk)
    ELSE Append(frontier_risks, None)

\* Lines 179-198: one iteration of the loop over target_returns; Len(solved)
\* iterations have been made.
CurveStep(f, result) ==
    LET risks == AppendCurvePoint(f.frontier_risks, result, f.returns_df)
    IN [f EXCEPT !.frontier_risks = risks,
                 !.solved = Append(@, result.success),
                 !.pc = IF Len(f.solved) + 1 >= Len(f.target_returns)
                        THEN "return" ELSE "curve"]

FloatList(w) == [i \in 1..Len(w.num) |-> WeightAt(w, i)]

\* Lines 200-228: the returned dictionary.
FrontierResult(f) ==
    [k |-> "frontier",
     random |-> [returns |-> f.random_returns, risks |-> f.random_risks,
                 sharpes |-> f.random_sharpes],
     frontier |-> [returns |-> f.target_returns, risks |-> f.frontier_risks],
     optimal |-> [max_sharpe |-> [weights |-> FloatList(f.max_sharpe_weights),
                                  metrics |-> f.max_sharpe_metrics],
                  min_risk |-> [weights |-> FloatList(f.min_risk_weights),
                                metrics |-> f.min_risk_metrics]]]

\* Line 151.
FrontierSeed ==
    /\ fr.pc = "seed"
    /\ rng' = SeedGenerator(rng, SEED)
    /\ fr' = [fr EXCEPT !.pc = IF SamplePortfolios = 0 THEN "anchors" ELSE "cloud"]
    /\ UNCHANGED <<th, fetch, pc, selected_stocks, optimization, weights_input, returns_df, weights,
                   metrics, frontier_data, response, invoked, prep, mt, opt_result, runs>>

FrontierSample ==
    /\ fr.pc = "cloud"
    /\ fr' = SampleStep(fr, rng)
    /\ rng' = AdvanceBy(rng, fr.n_assets)
    /\ invoked' = invoked \cup {"calculate_portfolio_metrics"}
    /\ UNCHANGED <<th, fetch, pc, selected_stocks, optimization, weights_input, returns_df, weights,
                   metrics, frontier_data, response, prep, mt, opt_result, runs>>

FrontierAnchors ==
    /\ fr.pc = "anchors"
    /\ \E r1, r2 \in SolverResults(fr.n_assets) : fr' = AnchorStep(fr, r1, r2)
    /\ invoked' = invoked \cup {"optimize_portfolio", "calculate_portfolio_metrics"}
    /\ UNCHANGED <<th, fetch, pc, selected_stocks, optimization, weights_input, returns_df, weights,
                   metrics, frontier_data, response, rng, prep, mt, opt_result, runs>>

FrontierCurvePoint ==
    /\ fr.pc = "curve"
    /\ \E result \in SolverResults(fr.n_assets) : fr' = CurveStep(fr, result)
    /\ invoked' = invoked \cup {"calculate_portfolio_metrics"}
    /\ UNCHANGED <<th, fetch, pc, selected_stocks, optimization, weights_input, returns_df, weights,
                   metrics, frontier_data, response, rng, prep, mt, opt_result, runs>>

FrontierReturn ==
    /\ fr.pc = "return"
    /\ fr' = [fr EXCEPT !.pc = "returned", !.result = FrontierResult(fr)]
    /\ UNCHANGED <<th, fetch, pc, selected_stocks, optimization, weights_input, returns_df, weights,
                   metrics, frontier_data, response, invoked, rng, prep, mt, opt_result, runs>>

---------------------------------------------------------------------------
(* The /analyze handler *)

ERR_SELECTION == "At least 2 stocks must be selected"

ERR_NO_DATA == "No valid stock data available"

ERR_CUSTOM_WEIGHTS == "Custom weights must sum to a positive value"

ERR_OPTIMIZATION == "Optimization failed or invalid optimization type"

\* An error reported in a response flagged as a success.
FailureFlaggedSuccess(msg) == [k |-> "response", success |-> TRUE, error |-> msg]

Failure(msg) == [k |-> "response", success |-> FALSE, error |-> msg]

\* dict.get(key, default) on a JSON object or a dictionary.
Get(obj, key, default) == IF key \in DOMAIN obj THEN obj[key] ELSE default

RawWeights == (-1)..MaxRawWeight

\* Selections a client sends: distinct configured instruments, in any order.
Selections ==
    {sel \in UNION {[1..n -> StockSet] : n \in 0..MaxSelected} : IsInjective(sel)}

\* Strategy tags a client sends: the four of the page, and one it does not know.
StrategyTags == {"equal", "max_sharpe", "min_risk", "custom", "momentum"}

\* Weight dictionaries for a selection: any subset of its instruments, as the
\* page sends them with the custom strategy; empty otherwise.
WeightInputs(sel, tag) ==
    IF tag = "custom" THEN UNION {[D -> RawWeights] : D \in SUBSET Range(sel)}
    ELSE {<<>>}

\* request.json: every field may be absent.
RequestBodies ==
    {[stocks |-> sel, weights |-> w, optimization |-> tag] :
        <<sel, tag, w>> \in
            UNION {{<<sel, tag, w>> : w \in WeightInputs(sel, tag)} :
                       <<sel, tag>> \in Selections \X StrategyTags}}
      \cup {[stocks |-> sel] : sel \in Selections}
      \cup {[optimization |-> tag] : tag \in StrategyTags}
      \cup {<<>>}

\* Line 264.
CustomRaw(selected, winput) == [i \in 1..Len(selected) |-> Get(winput, selected[i], 0)]

\* No check of the raw custom weights at all.
CustomRejectedNever(raw) == FALSE

\* Line 265: the only check made on the raw custom weights.
CustomRejected(raw) == SumSeq(raw) = 0

\* The weight branch with equal weights for the tag "equal" only; any other
\* unknown tag leaves no weights.
DetermineWeightsStrict(tag, selected, winput, df, result) ==
    IF tag = "max_sharpe" THEN OptimizePortfolio(df, "sharpe", result)
    ELSE IF tag = "min_risk" THEN OptimizePortfolio(df, "min_risk", result)
    ELSE IF tag = "custom"
         THEN LET raw == CustomRaw(selected, winput)
              IN IF CustomRejected(raw) THEN Failure(ERR_CUSTOM_WEIGHTS)
                 ELSE WeightVector(raw, SumSeq(raw))
    ELSE IF tag = "equal" THEN EqualWeights(Len(selected))
    ELSE None

\* Lines 258-269: the weights, or the early failure response of line 266.
DetermineWeights(tag, selected, winput, df, result) ==
    IF tag = "max_sharpe" THEN OptimizePortfolio(df, "sharpe", result)
    ELSE IF tag = "min_risk" THEN OptimizePortfolio(df, "min_risk", result)
    ELSE IF tag = "custom"
         THEN LET raw == CustomRaw(selected, winput)
              IN IF CustomRejected(raw) THEN Failure(ERR_CUSTOM_WEIGHTS)
                 ELSE WeightVector(raw, SumSeq(raw))
    ELSE EqualWeights(Len(selected))

\* Lines 286-300.
AllocationChart(selected, w) ==
    [labels |-> selected,
     values |-> [i \in 1..Len(selected) |->
                    IF w.den = 0 THEN NaN ELSE Rat(PERCENT * w.num[i], w.den)]]

\* Lines 302-359.
FrontierChart(fd, m) ==
    [random |-> [x |-> fd.random.risks, y |-> fd.random.returns,
                 color |-> fd.random.sharpes],
     frontier |-> [x |-> fd.frontier.risks, y |-> fd.frontier.returns],
     max_sharpe |-> [x |-> fd.optimal.max_sharpe.metrics.risk,
                     y |-> fd.optimal.max_sharpe.metrics.return],
     min_risk |-> [x |-> fd.optimal.min_risk.metrics.risk,
                   y |-> fd.optimal.min_risk.metrics.return],
     portfolio |-> [x |-> m.risk, y |-> m.return]]

\* Lines 361-375; the weights dictionary keeps the order of selected_stocks.
SuccessResponse(selected, w, m, fd) ==
    [k |-> "response", success |-> TRUE,
     portfolio |-> [weights |-> [i \in 1..Len(selected) |->
                                    [stock |-> selected[i], weight |-> WeightAt(w, i)]],
                    metrics |-> m],
     optimal |-> fd.optimal,
     charts |-> [allocation |-> AllocationChart(selected, w),
                 frontier |-> FrontierChart(fd, m)]]

\* Lines 240-247.
Receive ==
    /\ pc = "idle"
    /\ \E body \in RequestBodies :
        LET sel == Get(body, "stocks", STOCKS) IN
        /\ selected_stocks' = sel
        /\ weights_input' = Get(body, "weights", <<>>)
        /\ optimization' = Get(body, "optimization", "equal")
        /\ IF Len(sel) < 2
           THEN /\ response' = Failure(ERR_SELECTION)
                /\ pc' = "done"
           ELSE /\ response' = response
                /\ pc' = "prepare"
    /\ UNCHANGED <<th, fetch, returns_df, weights, metrics, frontier_data, invoked, rng, fr,
                   prep, mt, opt_result, runs>>

\* Lines 249-253.
Prepare ==
    /\ pc = "prepare"
    /\ \E kite \in [StockSet -> ListedSeries] :
        LET df == PreparePortfolioData(kite) IN
        /\ returns_df' = df
        /\ IF IsEmpty(df)
           THEN /\ response' = Failure(ERR_NO_DATA)
                /\ pc' = "done"
           ELSE /\ response' = response
                /\ pc' = "filter"
    /\ UNCHANGED <<th, fetch, selected_stocks, optimization, weights_input, weights, metrics,
                   frontier_data, invoked, rng, fr, prep, mt, opt_result, runs>>

\* Line 256; a KeyError is caught at line 377 and its text returned.
Filter ==
    /\ pc = "filter"
    /\ IF HasColumns(returns_df, selected_stocks)
       THEN /\ returns_df' = SelectColumns(returns_df, selected_stocks)
            /\ response' = response
            /\ pc' = "weights"
       ELSE /\ returns_df' = returns_df
            /\ response' = Failure("KeyError")
            /\ pc' = "done"
    /\ UNCHANGED <<th, fetch, selected_stocks, optimization, weights_input, weights, metrics,
                   frontier_data, invoked, rng, fr, prep, mt, opt_result, runs>>

\* Lines 258-273.
Weigh ==
    /\ pc = "weights"
    /\ \E result \in SolverResults(Len(returns_df.columns)) :
        LET w == DetermineWeights(optimization, selected_stocks, weights_input,
                                  returns_df, result)
        IN /\ opt_result' = IF optimization \in {"max_sharpe", "min_risk"}
                          THEN [k |-> "result", success |-> result.success, x |-> result.x]
                          ELSE opt_result
           /\ IF w.k = "response"
              THEN /\ response' = w
                   /\ weights' = weights
                   /\ pc' = "done"
              ELSE IF IsNone(w)
              THEN /\ response' = Failure(ERR_OPTIMIZATION)
                   /\ weights' = w
                   /\ pc' = "done"
              ELSE /\ response' = response
                   /\ weights' = w
                   /\ pc' = "metrics"
    /\ invoked' = IF optimization \in {"max_sharpe", "min_risk"}
                  THEN invoked \cup {"optimize_portfolio", "calculate_portfolio_metrics"}
                  ELSE invoked
    /\ UNCHANGED <<th, fetch, selected_stocks, optimization, weights_input, returns_df, metrics,
                   frontier_data, rng, fr, prep, mt, runs>>

\* Lines 275-281.
Measure ==
    /\ pc = "metrics"
    /\ metrics' = CalculatePortfolioMetrics(weights, returns_df)
    /\ invoked' = invoked \cup {"calculate_portfolio_metrics"}
    /\ pc' = "frontier"
    /\ UNCHANGED <<th, fetch, selected_stocks, optimization, weights_input, returns_df, weights,
                   frontier_data, response, rng, fr, prep, mt, opt_result, runs>>

\* Line 284: the call.
CallFrontier ==
    /\ pc = "frontier"
    /\ fr' = FrontierEntry(returns_df)
    /\ invoked' = invoked \cup {"generate_efficient_frontier"}
    /\ pc' = "in_frontier"
    /\ UNCHANGED <<th, fetch, selected_stocks, optimization, weights_input, returns_df, weights,
                   metrics, frontier_data, response, rng, prep, mt, opt_result, runs>>

\* Lines 284-375: the call returned.
Respond ==
    /\ pc = "in_frontier"
    /\ fr.pc = "returned"
    /\ frontier_data' = fr.result
    /\ response' = SuccessResponse(selected_stocks, weights, metrics, fr.result)
    /\ pc' = "done"
    /\ UNCHANGED <<th, fetch, selected_stocks, optimization, weights_input, returns_df, weights,
                   metrics, invoked, rng, fr, prep, mt, opt_result, runs>>

\* Lines 377-378: the call raised.
HandleException ==
    /\ pc = "in_frontier"
    /\ fr.pc = "raised"
    /\ response' = Failure(fr.result.error)
    /\ pc' = "done"
    /\ UNCHANGED <<th, fetch, selected_stocks, optimization, weights_input, returns_df, weights,
                   metrics, frontier_data, invoked, rng, fr, prep, mt, opt_result, runs>>

PrepIdle == [pc |-> "off"]

ThreadsIdle == <<>>

FetchIdle == [pc |-> "off"]

MetricsIdle == [pc |-> "off"]

\* calls: for each call that returned, its random cloud and whether other code
\* drew from the generator between the call before it (or the start) and its
\* entry; drawn: whether other code drew since the last call; entry_drawn: the
\* value of drawn that the running call found.
RunsIdle == [calls |-> <<>>, drawn |-> FALSE, entry_drawn |-> FALSE]

Init ==
    /\ pc = "idle"
    /\ selected_stocks = <<>>
    /\ optimization = "equal"
    /\ weights_input = <<>>
    /\ returns_df = None
    /\ opt_result = None
    /\ weights = None
    /\ metrics = None
    /\ frontier_data = None
    /\ response = None
    /\ invoked = {}
    /\ rng = 0
    /\ fr = FrontierIdle
    /\ prep = PrepIdle
    /\ mt = MetricsIdle
    /\ runs = RunsIdle
    /\ th = ThreadsIdle
    /\ fetch = FetchIdle

Next ==
    \/ Receive
    \/ Prepare
    \/ Filter
    \/ Weigh
    \/ Measure
    \/ CallFrontier
    \/ FrontierSeed
    \/ FrontierSample
    \/ FrontierAnchors
    \/ FrontierCurvePoint
    \/ FrontierReturn
    \/ Respond
    \/ HandleException

Spec == Init /\ [][Next]_vars

---------------------------------------------------------------------------
(* prepare_portfolio_data and the column filter, run on their own over series *)
(* with arbitrary gaps                                                      *)

InitPrep ==
    /\ pc = "off"
    /\ selected_stocks = <<>>
    /\ optimization = "equal"
    /\ weights_input = <<>>
    /\ returns_df = None
    /\ opt_result = None
    /\ weights = None
    /\ metrics = None
    /\ frontier_data = None
    /\ response = None
    /\ invoked = {}
    /\ rng = 0
    /\ fr = FrontierIdle
    /\ prep = [pc |-> "fetch", i |-> 1, returns_data |-> <<>>, returns_df |-> None,
               selected |-> <<>>, matrix |-> None]
    /\ mt = MetricsIdle
    /\ runs = RunsIdle
    /\ th = ThreadsIdle
    /\ fetch = FetchIdle

\* Lines 87-92: one iteration, with whatever the provider holds for the instrument.
PrepFetch ==
    /\ prep.pc = "fetch"
    /\ \E rows \in GappedSeries :
        prep' = [prep EXCEPT
                    !.returns_data = PrepareStep(@, STOCKS[prep.i], FetchStockData(rows)),
                    !.i = @ + 1,
                    !.pc = IF prep.i = Len(STOCKS) THEN "combine" ELSE "fetch"]
    /\ UNCHANGED <<th, fetch, pc, selected_stocks, optimization, weights_input, returns_df, weights,
                   metrics, frontier_data, response, invoked, rng, fr, mt, opt_result, runs>>

\* Lines 94-97.
PrepCombine ==
    /\ prep.pc = "combine"
    /\ prep' = [prep EXCEPT !.returns_df = CombineReturns(prep.returns_data),
                            !.pc = "returned"]
    /\ UNCHANGED <<th, fetch, pc, selected_stocks, optimization, weights_input, returns_df, weights,
                   metrics, frontier_data, response, invoked, rng, fr, mt, opt_result, runs>>

\* Lines 252-256 for a selection of at least two instruments that all have data.
PrepSelect ==
    /\ prep.pc = "returned"
    /\ ~IsEmpty(prep.returns_df)
    /\ \E sel \in Selections :
        /\ Len(sel) >= 2
        /\ HasColumns(prep.returns_df, sel)
        /\ prep' = [prep EXCEPT !.selected = sel,
                                !.matrix = SelectColumns(prep.returns_df, sel),
                                !.pc = "selected"]
    /\ UNCHANGED <<th, fetch, pc, selected_stocks, optimization, weights_input, returns_df, weights,
                   metrics, frontier_data, response, invoked, rng, fr, mt, opt_result, runs>>

NextPrep ==
    \/ PrepFetch
    \/ PrepCombine
    \/ PrepSelect

SpecPrep == InitPrep /\ [][NextPrep]_vars

---------------------------------------------------------------------------
(* calculate_portfolio_metrics, run on its own *)

\* Return matrices the handler passes on: at least two selected columns, at
\* least one row.
Matrices ==
    {SelectColumns(PreparePortfolioData(kite), sel) :
        <<kite, sel>> \in
            {ks \in [StockSet -> ListedSeries] \X Selections :
                /\ Len(ks[2]) >= 2
                /\ ~IsEmpty(PreparePortfolioData(ks[1]))
                /\ HasColumns(PreparePortfolioData(ks[1]), ks[2])}}

\* Weight vectors: raw non-negative entries, not all zero, normalised to sum 1.
NormalisedWeights(n) ==
    {WeightVector(x, SumSeq(x)) : x \in {y \in [1..n -> 0..MaxRawNum] : SumSeq(y) > 0}}

InitMetrics ==
    /\ pc = "off"
    /\ selected_stocks = <<>>
    /\ optimization = "equal"
    /\ weights_input = <<>>
    /\ returns_df = None
    /\ opt_result = None
    /\ weights = None
    /\ metrics = None
    /\ frontier_data = None
    /\ response = None
    /\ invoked = {}
    /\ rng = 0
    /\ fr = FrontierIdle
    /\ prep = PrepIdle
    /\ \E df \in Matrices : \E w \in NormalisedWeights(Len(df.columns)) :
          mt = [pc |-> "call", weights |-> w, returns_df |-> df, result |-> None]
    /\ runs = RunsIdle
    /\ th = ThreadsIdle
    /\ fetch = FetchIdle

MetricsCall ==
    /\ mt.pc = "call"
    /\ mt' = [mt EXCEPT !.result = CalculatePortfolioMetrics(mt.weights, mt.returns_df),
                        !.pc = "returned"]
    /\ UNCHANGED <<th, fetch, pc, selected_stocks, optimization, weights_input, returns_df, weights,
                   metrics, frontier_data, response, invoked, rng, fr, prep, runs, opt_result>>

NextMetrics == MetricsCall

SpecMetrics == InitMetrics /\ [][NextMetrics]_vars

---------------------------------------------------------------------------
(* generate_efficient_frontier called repeatedly on one return matrix, with *)
(* other users of the global generator drawing from it between the calls    *)

\* Two-column matrices over the first two instruments.
FrontierInputs == {df \in Matrices : df.columns = SubSeq(STOCKS, 1, 2)}

InitFrontier ==
    /\ pc = "off"
    /\ selected_stocks = <<>>
    /\ optimization = "equal"
    /\ weights_input = <<>>
    /\ returns_df \in FrontierInputs
    /\ opt_result = None
    /\ weights = None
    /\ metrics = None
    /\ frontier_data = None
    /\ response = None
    /\ invoked = {}
    /\ rng \in 0..(RngModulus - 1)
    /\ fr = FrontierIdle
    /\ prep = PrepIdle
    /\ mt = MetricsIdle
    /\ runs = RunsIdle
    /\ th = ThreadsIdle
    /\ fetch = FetchIdle

\* Some other code draws one number from np.random; any number of such draws
\* may precede a call.
OtherDraw ==
    /\ pc = "off"
    /\ fr.pc = "idle"
    /\ rng' = Advance(rng)
    /\ runs' = [runs EXCEPT !.drawn = TRUE]
    /\ UNCHANGED <<th, fetch, pc, selected_stocks, optimization, weights_input, returns_df, weights,
                   metrics, frontier_data, response, invoked, fr, prep, mt, opt_result>>

RepeatCall ==
    /\ pc = "off"
    /\ fr.pc = "idle"
    /\ Len(runs.calls) < MaxCalls
    /\ fr' = FrontierEntry(returns_df)
    /\ runs' = [runs EXCEPT !.entry_drawn = runs.drawn, !.drawn = FALSE]
    /\ UNCHANGED <<th, fetch, pc, selected_stocks, optimization, weights_input, returns_df, weights,
                   metrics, frontier_data, response, invoked, rng, prep, mt, opt_result>>

\* The call returned: keep its random cloud.
RepeatCollect ==
    /\ pc = "off"
    /\ fr.pc = "returned"
    /\ runs' = [runs EXCEPT !.calls = Append(@, [drawn |-> runs.entry_drawn,
                                                 random |-> fr.result.random]),
                            !.entry_drawn = FALSE]
    /\ fr' = FrontierIdle
    /\ UNCHANGED <<th, fetch, pc, selected_stocks, optimization, weights_input, returns_df, weights,
                   metrics, frontier_data, response, invoked, rng, prep, mt, opt_result>>

\* The call raised: nothing was produced.
RepeatDiscard ==
    /\ pc = "off"
    /\ fr.pc = "raised"
    /\ fr' = FrontierIdle
    /\ runs' = [runs EXCEPT !.entry_drawn = FALSE]
    /\ UNCHANGED <<th, fetch, pc, selected_stocks, optimization, weights_input, returns_df, weights,
                   metrics, frontier_data, response, invoked, rng, prep, mt, opt_result>>

NextFrontier ==
    \/ OtherDraw
    \/ RepeatCall
    \/ FrontierSeed
    \/ FrontierSample
    \/ FrontierAnchors
    \/ FrontierCurvePoint
    \/ FrontierReturn
    \/ RepeatCollect
    \/ RepeatDiscard

SpecFrontier == InitFrontier /\ [][NextFrontier]_vars

---------------------------------------------------------------------------
(* The random-portfolio loop of generate_efficient_frontier, run on its own  *)
(* with np.random.random(n_assets) returning any vector of numbers of        *)
(* [0, 1): the draws are multiples of the smallest positive one.  `weights`  *)
(* is the local of lines 158-159 in the last iteration made.                 *)

DrawOutcomes(n) == [1..n -> 0..MaxDraw]

InitCloud ==
    /\ pc = "off"
    /\ selected_stocks = <<>>
    /\ optimization = "equal"
    /\ weights_input = <<>>
    /\ returns_df \in FrontierInputs
    /\ opt_result = None
    /\ weights = None
    /\ metrics = None
    /\ frontier_data = None
    /\ response = None
    /\ invoked = {}
    /\ rng = 0
    /\ fr = FrontierEntry(returns_df)
    /\ prep = PrepIdle
    /\ mt = MetricsIdle
    /\ runs = RunsIdle
    /\ th = ThreadsIdle
    /\ fetch = FetchIdle

\* Lines 157-165: one iteration, for one outcome of the draws.
CloudDraw ==
    /\ pc = "off"
    /\ fr.pc = "cloud"
    /\ \E draws \in DrawOutcomes(fr.n_assets) :
          /\ weights' = WeightVector(draws, SumSeq(draws))
          /\ fr' = SampleWith(fr, WeightVector(draws, SumSeq(draws)))
    /\ UNCHANGED <<th, fetch, pc, selected_stocks, optimization, weights_input, returns_df,
                   metrics, frontier_data, response, invoked, rng, prep, mt, opt_result, runs>>

NextCloud ==
    \/ FrontierSeed
    \/ CloudDraw

SpecCloud == InitCloud /\ [][NextCloud]_vars

---------------------------------------------------------------------------
(* Two /analyze requests served by two threads of one process, both inside   *)
(* generate_efficient_frontier on the same return matrix.  np.random is the  *)
(* one generator of the process.  Each thread is followed through lines      *)
(* 146-177; the lines after them read and write only the call's locals.      *)

Threads == {"A", "B"}

InitThreads ==
    /\ pc = "off"
    /\ selected_stocks = <<>>
    /\ optimization = "equal"
    /\ weights_input = <<>>
    /\ returns_df \in FrontierInputs
    /\ opt_result = None
    /\ weights = None
    /\ metrics = None
    /\ frontier_data = None
    /\ response = None
    /\ invoked = {}
    /\ rng \in 0..(RngModulus - 1)
    /\ fr = FrontierIdle
    /\ prep = PrepIdle
    /\ mt = MetricsIdle
    /\ runs = RunsIdle
    /\ th = [t \in Threads |-> FrontierEntry(returns_df)]
    /\ fetch = FetchIdle

\* Line 151 in thread t: reseeds the generator both threads draw from.
ThreadSeed ==
    /\ \E t \in DOMAIN th :
          /\ th[t].pc = "seed"
          /\ th' = [th EXCEPT ![t].pc = IF SamplePortfolios = 0 THEN "anchors" ELSE "cloud"]
    /\ rng' = SeedGenerator(rng, SEED)
    /\ UNCHANGED <<pc, selected_stocks, optimization, weights_input, returns_df, opt_result,
                   weights, metrics, frontier_data, response, invoked, fr, prep, mt, runs,
                   fetch>>

\* Lines 157-165 in thread t: one iteration; np.random.random(n_assets) is one
\* call on the generator, made under the generator's lock.
ThreadSample ==
    /\ \E t \in DOMAIN th :
          /\ th[t].pc = "cloud"
          /\ th' = [th EXCEPT ![t] = SampleStep(th[t], rng)]
          /\ rng' = AdvanceBy(rng, th[t].n_assets)
    /\ UNCHANGED <<pc, selected_stocks, optimization, weights_input, returns_df, opt_result,
                   weights, metrics, frontier_data, response, invoked, fr, prep, mt, runs,
                   fetch>>

\* Lines 167-177 in thread t.
ThreadAnchors ==
    /\ \E t \in DOMAIN th :
          /\ th[t].pc = "anchors"
          /\ \E r1, r2 \in SolverResults(th[t].n_assets) :
                th' = [th EXCEPT ![t] = AnchorStep(th[t], r1, r2)]
    /\ UNCHANGED <<pc, selected_stocks, optimization, weights_input, returns_df, opt_result,
                   weights, metrics, frontier_data, response, invoked, rng, fr, prep, mt,
                   runs, fetch>>

NextThreads ==
    \/ ThreadSeed
    \/ ThreadSample
    \/ ThreadAnchors

SpecThreads == InitThreads /\ [][NextThreads]_vars

\* Lines 151-165 run by one call with no other user of the generator: the
\* locals of the call when its random-portfolio loop has ended.
RECURSIVE CloudFrom(_, _)
CloudFrom(f, state) ==
    IF Len(f.random_returns) >= SamplePortfolios THEN f
    ELSE CloudFrom(SampleStep(f, state), AdvanceBy(state, f.n_assets))

CloudAlone(df) == CloudFrom(FrontierEntry(df), SeedGenerator(0, SEED))

---------------------------------------------------------------------------
(* fetch_stock_data, run on its own.  Dates are day numbers.  The provider   *)
(* answers each chunk request with rows, with no rows, or with an exception. *)

\* to_date - from_date: around every multiple of the chunk stride.
Spans ==
    {k * (CHUNK_DAYS + 1) + e : k \in 0..MaxChunks, e \in (-DateSlack)..DateSlack}

ProviderAnswers == {"rows", "empty", "raise"}

\* Lines 53-54: entry of the call. requests: the date ranges asked of the
\* provider; answers: what it gave for each; all_data: the ranges whose rows
\* were kept.
FetchEntry(from_date, to_date) ==
    [pc |-> "loop", from_date |-> from_date, to_date |-> to_date,
     current_date |-> from_date, requests |-> <<>>, answers |-> <<>>,
     all_data |-> <<>>, result |-> None]

\* Line 56.
ChunkEnd(current_date, to_date) ==
    IF current_date + CHUNK_DAYS < to_date THEN current_date + CHUNK_DAYS ELSE to_date

\* The next chunk starting a full chunk length before the end of the last one.
NextChunkStartStall(chunk_end) == chunk_end - CHUNK_DAYS

\* Line 67.
NextChunkStart(chunk_end) == chunk_end + 1

\* Lines 55-67: one iteration of the loop, given the provider's answer; an
\* exception is caught at lines 75-77.
ChunkStep(f, answer) ==
    LET chunk_end == ChunkEnd(f.current_date, f.to_date)
        asked == [f EXCEPT !.requests = Append(@, <<f.current_date, chunk_end>>),
                           !.answers = Append(@, answer)]
    IN IF answer = "rows"
       THEN [asked EXCEPT !.all_data = Append(@, <<f.current_date, chunk_end>>),
                          !.current_date = NextChunkStart(chunk_end)]
       ELSE [asked EXCEPT !.pc = "returned", !.result = None]

\* Lines 68-74: after the loop.
FetchResult(f) ==
    IF f.all_data = <<>> THEN None ELSE [k |-> "df", chunks |-> f.all_data]

InitFetch ==
    /\ pc = "off"
    /\ selected_stocks = <<>>
    /\ optimization = "equal"
    /\ weights_input = <<>>
    /\ returns_df = None
    /\ opt_result = None
    /\ weights = None
    /\ metrics = None
    /\ frontier_data = None
    /\ response = None
    /\ invoked = {}
    /\ rng = 0
    /\ fr = FrontierIdle
    /\ prep = PrepIdle
    /\ mt = MetricsIdle
    /\ runs = RunsIdle
    /\ th = ThreadsIdle
    /\ \E from_date \in 0..MaxFromDate : \E span \in Spans :
          fetch = FetchEntry(from_date, from_date + span)

FetchChunk ==
    /\ fetch.pc = "loop"
    /\ fetch.current_date < fetch.to_date
    /\ \E answer \in ProviderAnswers : fetch' = ChunkStep(fetch, answer)
    /\ UNCHANGED <<pc, selected_stocks, optimization, weights_input, returns_df, opt_result,
                   weights, metrics, frontier_data, response, invoked, rng, fr, prep, mt,
                   runs, th>>

FetchReturn ==
    /\ fetch.pc = "loop"
    /\ ~(fetch.current_date < fetch.to_date)
    /\ fetch' = [fetch EXCEPT !.pc = "returned", !.result = FetchResult(fetch)]
    /\ UNCHANGED <<pc, selected_stocks, optimization, weights_input, returns_df, opt_result,
                   weights, metrics, frontier_data, response, invoked, rng, fr, prep, mt,
                   runs, th>>

NextFetch ==
    \/ FetchChunk
    \/ FetchReturn

SpecFetch == InitFetch /\ [][NextFetch]_vars

---------------------------------------------------------------------------
(* Every run to its end: an /analyze request as the handler serves it, or a  *)
(* call of fetch_stock_data as prepare_portfolio_data makes one for each     *)
(* configured instrument.  A call of the provider or of minimize() is one    *)
(* step: it returns.                                                         *)

InitRun == Init \/ InitFetch

NextRun ==
    \/ Next
    \/ NextFetch

SpecRun == InitRun /\ [][NextRun]_vars /\ WF_vars(NextRun)

\* Lines 55-73: the days left to request, and the return.
FetchRemaining(f) ==
    IF f.pc # "loop" THEN 0
    ELSE IF f.current_date < f.to_date THEN 1 + (f.to_date - f.current_date)
    ELSE 1

\* Lines 151-228: the statements a call of generate_efficient_frontier has
\* left: the seed, the iterations of the two loops, the anchors, the return.
FrontierRemaining(f) ==
    IF f.pc = "seed" THEN SamplePortfolios + CurvePoints + 3
    ELSE IF f.pc = "cloud"
         THEN (SamplePortfolios - Len(f.random_returns)) + CurvePoints + 2
    ELSE IF f.pc = "anchors" THEN CurvePoints + 2
    ELSE IF f.pc = "curve" THEN (Len(f.target_returns) - Len(f.solved)) + 1
    ELSE IF f.pc = "return" THEN 1
    ELSE 0

\* Lines 236-378: the steps of the handler left, the call of line 284 included.
HandlerRemaining ==
    LET call == SamplePortfolios + CurvePoints + 3
    IN IF pc = "idle" THEN call + 7
       ELSE IF pc = "prepare" THEN call + 6
       ELSE IF pc = "filter" THEN call + 5
       ELSE IF pc = "weights" THEN call + 4
       ELSE IF pc = "metrics" THEN call + 3
       ELSE IF pc = "frontier" THEN call + 2
       ELSE IF pc = "in_frontier" THEN 1
       ELSE 0

Remaining == HandlerRemaining + FrontierRemaining(fr) + FetchRemaining(fetch)

\* The run has produced what it returns.
Returned == pc = "done" \/ fetch.pc = "returned"

---------------------------------------------------------------------------
(* Properties *)

\* The request passed the selection check, the data check and the column filter.
Validated ==
    /\ Len(selected_stocks) >= 2
    /\ ~IsNone(returns_df)
    /\ ~IsEmpty(returns_df)
    /\ HasColumns(returns_df, selected_stocks)

\* The raw custom weights of the selected instruments.
RequestRaw == CustomRaw(selected_stocks, weights_input)

C2_CurveLength ==
    /\ fr.pc = "returned" =>
          /\ Len(fr.result.frontier.returns) = CurvePoints
          /\ Len(fr.result.frontier.risks) = CurvePoints
          /\ Len(fr.solved) = CurvePoints
          /\ \A i \in 1..CurvePoints :
                ~fr.solved[i] <=> IsNone(fr.result.frontier.risks[i])
    /\ fr.pc \in {"curve", "return"} =>
          /\ Len(fr.target_returns) = CurvePoints
          /\ Len(fr.frontier_risks) = Len(fr.solved)
          /\ \A i \in 1..Len(fr.solved) : ~fr.solved[i] <=> IsNone(fr.frontier_risks[i])

C2_Witness ==
    /\ fr.pc = "returned"
    /\ \E i, j \in 1..CurvePoints : ~fr.solved[i] /\ fr.solved[j]
    /\ Len(fr.result.frontier.risks) = CurvePoints

\* C3: if the solve for either anchor portfolio fails, generate_efficient_frontier
\* raises instead of returning, and the request ends in a failure response
\* whatever the strategy; if both anchors are found, the frontier is returned,
\* every failed curve solve shows as None at its position and the request succeeds.
C3_AnchorFatalCurveNull ==
    /\ (fr.anchor_solved # <<>> /\ FALSE \in Range(fr.anchor_solved)) =>
          /\ fr.pc = "raised"
          /\ IsNone(frontier_data)
          /\ pc = "done" => response = Failure("TypeError")
    /\ (pc = "done" /\ fr.anchor_solved = <<TRUE, TRUE>>) =>
          /\ response.success
          /\ frontier_data = fr.result
          /\ \A i \in 1..Len(fr.solved) :
                ~fr.solved[i] => IsNone(response.charts.frontier.frontier.x[i])

C3_Witness ==
    /\ pc = "done"
    /\ optimization = "custom"
    /\ fr.anchor_solved = <<TRUE, FALSE>>
    /\ ~response.success

\* C4: whenever calculate_portfolio_metrics is called with weights and a return
\* matrix whose annualised risk is exactly 0, it raises and returns no metrics.
C4_ZeroRiskRaises ==
    (mt.pc = "returned" /\ IsZero(AnnualRiskPct(mt.weights, mt.returns_df))) =>
        IsRaise(mt.result)

\* C5 as stated: every custom request whose raw weights for the selected
\* instruments are all zero or absent ends in the invalid-weights response, and
\* none of the core functions is called on the way.
C5_AsStated ==
    (pc = "done" /\ optimization = "custom" /\ \A i \in 1..Len(RequestRaw) : RequestRaw[i] = 0) =>
        /\ response = Failure(ERR_CUSTOM_WEIGHTS)
        /\ invoked = {}

\* C5 amended: a custom request whose raw weights for the selected instruments
\* are all zero or absent never has a core function called for it, and when it
\* passed the selection check, the data check and the column filter it ends in
\* the invalid-weights response.
C5_ZeroWeightsRejected ==
    (pc # "idle" /\ optimization = "custom" /\ \A i \in 1..Len(RequestRaw) : RequestRaw[i] = 0) =>
        /\ invoked = {}
        /\ IsNone(weights)
        /\ IsNone(metrics)
        /\ fr = FrontierIdle
        /\ (pc = "done" /\ Validated) => response = Failure(ERR_CUSTOM_WEIGHTS)

C5_Witness ==
    /\ pc = "done"
    /\ optimization = "custom"
    /\ Validated
    /\ \E a, b \in Range(selected_stocks) :
          /\ a \in DOMAIN weights_input
          /\ weights_input[a] = 0
          /\ b \notin DOMAIN weights_input
    /\ response = Failure(ERR_CUSTOM_WEIGHTS)

\* C6: a custom request that passed the selection check, the data check and the
\* column filter with a negative raw weight is, once the weight step has run, at
\* its end with the invalid-weights response: its weights were not normalised,
\* no metrics were computed and neither the optimizer nor the frontier generator
\* was called.
C6_NegativeWeightsRejected ==
    (pc \in {"metrics", "frontier", "in_frontier", "done"} /\ optimization = "custom"
        /\ Validated /\ \E i \in 1..Len(RequestRaw) : RequestRaw[i] < 0) =>
        /\ pc = "done"
        /\ response = Failure(ERR_CUSTOM_WEIGHTS)
        /\ IsNone(weights)
        /\ IsNone(metrics)
        /\ invoked = {}

\* C7: in every successful response the selected portfolio has one weight per
\* selected instrument, in selection order, every weight is non-negative and the
\* weights sum to 1.
C7_WeightsOnSimplex ==
    (pc = "done" /\ response.success) =>
        /\ Len(response.portfolio.weights) = Len(selected_stocks)
        /\ \A i \in 1..Len(selected_stocks) :
              /\ response.portfolio.weights[i].stock = selected_stocks[i]
              /\ response.portfolio.weights[i].weight = WeightAt(weights, i)
              /\ IsFinite(response.portfolio.weights[i].weight)
              /\ response.portfolio.weights[i].weight.s >= 0
        /\ weights.den > 0
        /\ SumSeq(weights.num) = weights.den

\* Dates on which instrument c has a return, in a sequence of [symbol, returns].
ReturnDates(returns_data, c) ==
    UNION {DOMAIN returns_data[j].returns :
              j \in {j \in 1..Len(returns_data) : returns_data[j].symbol = c}}

\* C8: the rows of the return matrix of a request are exactly the dates on which
\* every selected instrument has a return, so there are as many rows as such
\* dates and no more than any selected instrument has returns; its columns are
\* the selected instruments in selection order.
C8_RowsAreSelectedIntersection ==
    prep.pc = "selected" =>
        LET common == {d \in Dates : \A c \in Range(prep.selected) :
                          d \in ReturnDates(prep.returns_data, c)}
        IN /\ Range(prep.matrix.index) = common
           /\ Len(prep.matrix.index) = Cardinality(common)
           /\ \A c \in Range(prep.selected) :
                 Len(prep.matrix.index) <= Cardinality(ReturnDates(prep.returns_data, c))
           /\ prep.matrix.columns = prep.selected

\* C9: a request ends in an insufficient-data response, with no metrics computed
\* and neither the optimizer nor the frontier generator called, whenever fewer
\* than 2 instruments are selected, the aligned return matrix has no rows, or
\* fewer than 2 instruments have data.
C9_InsufficientData ==
    (pc = "done"
        /\ \/ Len(selected_stocks) < 2
           \/ /\ ~IsNone(returns_df)
              /\ \/ Len(returns_df.index) = 0
                 \/ Len(returns_df.columns) < 2) =>
        /\ response \in {Failure(ERR_SELECTION), Failure(ERR_NO_DATA)}
        /\ IsNone(metrics)
        /\ invoked = {}

\* C10: the random clouds of any two calls of generate_efficient_frontier on the
\* same return matrix are equal element for element, whatever other code drew
\* from the generator before or between the calls; and the cloud entries a
\* running call has produced so far equal the entries at the same positions of
\* every cloud returned before.
C10_CloudsRepeat ==
    /\ \A i, j \in 1..Len(runs.calls) : runs.calls[i].random = runs.calls[j].random
    /\ \A i \in 1..Len(runs.calls) : \A k \in 1..Len(fr.random_returns) :
          /\ fr.random_returns[k] = runs.calls[i].random.returns[k]
          /\ fr.random_risks[k] = runs.calls[i].random.risks[k]
          /\ fr.random_sharpes[k] = runs.calls[i].random.sharpes[k]

C10_Witness ==
    /\ Len(runs.calls) >= 2
    /\ runs.calls[1].drawn
    /\ runs.calls[2].drawn
    /\ Len(runs.calls[2].random.returns) = SamplePortfolios
    /\ Len(runs.calls[2].random.risks) = SamplePortfolios
    /\ Len(runs.calls[2].random.sharpes) = SamplePortfolios
    /\ \E k \in 2..SamplePortfolios :
          runs.calls[2].random.returns[k] # runs.calls[2].random.returns[1]

\* C11: when two requests run generate_efficient_frontier in parallel on the
\* same return matrix, each thread's random cloud, once complete, is the cloud
\* of a call run alone, and so are the target returns computed from it.
C11_ThreadsIsolated ==
    \A t \in DOMAIN th :
        LET alone == CloudAlone(th[t].returns_df)
        IN /\ th[t].pc \in {"anchors", "curve", "raised"} =>
                /\ th[t].random_returns = alone.random_returns
                /\ th[t].random_risks = alone.random_risks
                /\ th[t].random_sharpes = alone.random_sharpes
           /\ th[t].pc = "curve" =>
                th[t].target_returns =
                    Linspace(PyMin(alone.random_returns), PyMax(alone.random_returns),
                             CurvePoints)

\* C17: for from_date < to_date, the chunk requests of a fetch start at
\* from_date, each spans at most CHUNK_DAYS days, each starts the day after
\* the one before it ended, and, when the provider had rows for every chunk,
\* the last one ends at to_date; a chunk without rows makes the fetch return None.
C17_ChunksCoverRange ==
    (fetch.pc = "returned" /\ fetch.from_date < fetch.to_date) =>
        LET req == fetch.requests
        IN /\ Len(req) >= 1
           /\ req[1][1] = fetch.from_date
           /\ \A i \in 1..Len(req) :
                 /\ req[i][1] <= req[i][2]
                 /\ req[i][2] - req[i][1] <= CHUNK_DAYS
                 /\ req[i][2] <= fetch.to_date
           /\ \A i \in 1..(Len(req) - 1) : req[i + 1][1] = req[i][2] + 1
           /\ (\A i \in 1..Len(req) : fetch.answers[i] = "rows") =>
                 req[Len(req)][2] = fetch.to_date
           /\ (\E i \in 1..Len(req) : fetch.answers[i] = "empty") => IsNone(fetch.result)


---------------------------------------------------------------------------
\* C12: every /analyze request and every fetch_stock_data call reaches its
\* return: from every state short of the return a step can be taken, and every
\* step of the handler, of the chunked fetch loop, of the random-cloud loop and
\* of the frontier-curve loop (a failed solve included) lowers a non-negative
\* count of the steps left, for every from_date/to_date and every matrix.
C12_RunsTerminate ==
    /\ [](Remaining >= 0 /\ (Returned \/ ENABLED NextRun))
    /\ [][Remaining' < Remaining]_vars

\* A request answered after both loops ran and a solve for a target failed.
C12_Witness ==
    /\ pc = "done"
    /\ response.success
    /\ \E i \in 1..Len(frontier_data.frontier.risks) :
          IsNone(frontier_data.frontier.risks[i])


---------------------------------------------------------------------------
\* C13: a response is all or nothing.  A response with success = true carries
\* the weight of every selected instrument and the portfolio's metrics, both
\* optimal portfolios with weights and metrics, and both charts, and is sent
\* only when data preparation, weight determination, metrics and the frontier
\* all completed; every other response has success = false, an error text,
\* and none of those sections.
C13_AllOrNothing ==
    pc = "done" =>
        /\ response.k = "response"
        /\ response.success =>
              /\ DOMAIN response = {"k", "success", "portfolio", "optimal", "charts"}
              /\ Len(response.portfolio.weights) = Len(selected_stocks)
              /\ \A i \in 1..Len(selected_stocks) :
                    /\ response.portfolio.weights[i].stock = selected_stocks[i]
                    /\ response.portfolio.weights[i].weight = WeightAt(weights, i)
              /\ response.portfolio.metrics.k = "metrics"
              /\ response.portfolio.metrics = metrics
              /\ \A o \in {"max_sharpe", "min_risk"} :
                    /\ Len(response.optimal[o].weights) = Len(selected_stocks)
                    /\ response.optimal[o].metrics.k = "metrics"
              /\ DOMAIN response.charts = {"allocation", "frontier"}
              /\ response.charts.allocation.labels = selected_stocks
              /\ Len(response.charts.allocation.values) = Len(selected_stocks)
              /\ Len(response.charts.frontier.random.x) = SamplePortfolios
              /\ Len(response.charts.frontier.frontier.x) = CurvePoints
              /\ ~IsEmpty(returns_df)
              /\ returns_df.columns = selected_stocks
              /\ weights.k = "w"
              /\ fr.pc = "returned"
        /\ ~response.success =>
              /\ DOMAIN response = {"k", "success", "error"}
              /\ response.error # ""
              /\ fr.pc # "returned"

\* A success response for custom weights.
C13_Witness ==
    /\ pc = "done"
    /\ response.success
    /\ optimization = "custom"
    /\ "charts" \in DOMAIN response


---------------------------------------------------------------------------
\* y - x on rationals, over the least common denominator.
RDiff(x, y) ==
    LET g == Gcd(x.d, y.d)
    IN Rat(y.s * y.n * (x.d \div g) - x.s * x.n * (y.d \div g), (x.d \div g) * y.d)

\* The values of t never decrease, start at lo, end at hi, and neighbours are
\* the same distance apart.
EvenlyBetween(t, lo, hi) ==
    /\ t[1] = lo
    /\ t[Len(t)] = hi
    /\ \A i \in 1..(Len(t) - 1) : IsFinite(t[i]) /\ ~RLess(t[i + 1], t[i])
    /\ \A i \in 1..(Len(t) - 2) : RDiff(t[i], t[i + 1]) = RDiff(t[i + 1], t[i + 2])

\* C14: the target returns of the frontier curve never decrease, are evenly
\* spaced, start at the smallest and end at the largest return of the random
\* cloud (for the n_portfolios of the call and for every n_portfolios from 2 to
\* MaxPoints); and the risk at position i is the outcome of the i-th solve, the
\* one made for target i: None exactly when that solve failed, else the risk of
\* the weights that solve returned.
C14_TargetsAligned ==
    fr.pc \in {"curve", "return", "returned"} =>
        LET lo == PyMin(fr.random_returns)
            hi == PyMax(fr.random_returns)
        IN /\ \E k \in 1..Len(fr.random_returns) : fr.random_returns[k] = lo
           /\ \E k \in 1..Len(fr.random_returns) : fr.random_returns[k] = hi
           /\ \A k \in 1..Len(fr.random_returns) :
                 /\ ~RLess(fr.random_returns[k], lo)
                 /\ ~RLess(hi, fr.random_returns[k])
           /\ Len(fr.target_returns) = CurvePoints
           /\ EvenlyBetween(fr.target_returns, lo, hi)
           /\ \A n \in 2..MaxPoints : EvenlyBetween(Linspace(lo, hi, n), lo, hi)
           /\ Len(fr.frontier_risks) = Len(fr.solved)
           /\ Len(fr.solved) <= Len(fr.target_returns)
           /\ \A i \in 1..Len(fr.solved) :
                 \E result \in SolverResults(fr.n_assets) :
                    /\ result.success = fr.solved[i]
                    /\ fr.frontier_risks[i] =
                          IF result.success
                          THEN CalculatePortfolioMetrics(result.x, fr.returns_df).risk
                          ELSE None
           /\ fr.pc = "returned" =>
                 /\ fr.result.frontier.returns = fr.target_returns
                 /\ fr.result.frontier.risks = fr.frontier_risks
                 /\ Len(fr.frontier_risks) = Len(fr.target_returns)

\* A returned curve over a cloud of differing returns, with a failed solve for
\* the first target and a successful one for the last.
C14_Witness ==
    /\ fr.pc = "returned"
    /\ RLess(PyMin(fr.random_returns), PyMax(fr.random_returns))
    /\ ~fr.solved[1]
    /\ fr.solved[Len(fr.solved)]
    /\ ~IsNone(fr.result.frontier.risks[Len(fr.solved)])


---------------------------------------------------------------------------
---------------------------------------------------------------------------
\* C16: a request that passed validation and whose strategy tag is absent or
\* is none of max_sharpe, min_risk and custom gets the equal weights 1/N over
\* its N selected instruments: optimize_portfolio has not been called when the
\* weights are determined, no solver result is kept, and the response is
\* neither the optimization-failed/invalid-type response nor the
\* custom-weights rejection.
C16_UnknownTagEqualWeights ==
    (/\ pc \in {"metrics", "frontier", "in_frontier", "done"}
     /\ Validated
     /\ optimization \notin {"max_sharpe", "min_risk", "custom"}) =>
        /\ weights = EqualWeights(Len(selected_stocks))
        /\ \A i \in 1..Len(selected_stocks) :
              WeightAt(weights, i) = Rat(1, Len(selected_stocks))
        /\ IsNone(opt_result)
        /\ pc = "metrics" => "optimize_portfolio" \notin invoked
        /\ response # Failure(ERR_OPTIMIZATION)
        /\ response # Failure(ERR_CUSTOM_WEIGHTS)

\* A request with a tag the handler does not know, answered with a success.
C16_Witness ==
    /\ pc = "done"
    /\ optimization = "momentum"
    /\ response.success
    /\ weights = EqualWeights(Len(selected_stocks))

====
